---- MODULE Spec2Model ----
(***************************************************************************)
(* Model of picolog/data.py: Reading, Sample and DataStore.                *)
(*                                                                         *)
(* The module is Python 2 code (from __future__ import print_function, and *)
(* the note at data.py:257-258), so map() at data.py:317 is eager and the  *)
(* conversion callbacks run inside _insert_reading.                        *)
(*                                                                         *)
(* Sample values are floats in the source; the model uses the integer      *)
(* valued floats that the chosen inputs and callbacks produce.             *)
(***************************************************************************)
EXTENDS Integers, Sequences, FiniteSets, TLC

(***************************************************************************)
(* Bounds of the model.                                                    *)
(***************************************************************************)
\* largest reading_time offered to the store; the smallest is -1
MaxTime == 2
\* largest reading_storage_length passed to the constructor; the smallest is -1
MaxLength == 2
\* largest number of readings one insert call is given
MaxBatch == 2

Times == (0 - 1)..MaxTime
Lengths == (0 - 1)..MaxLength

\* raw sample value lists handed to Reading(...): one or two channels
SampleValues == { <<0>>, <<1>>, <<0, 1>> }

\* the conversion callback lists a store is constructed with
CallbackLists == { <<>>, <<"dec", "dbl">> }

(***************************************************************************)
(* Sample and Reading                                                      *)
(***************************************************************************)
Sample(channel, value) == [channel |-> channel, value |-> value]

\* Reading(reading_time, channels, samples): one Sample per (channel, value)
Reading(reading_time, channels, values) ==
    [ reading_time |-> reading_time,
      channels     |-> channels,
      samples      |-> [i \in 1..Len(values) |-> Sample(channels[i], values[i])] ]

\* [sample.value for sample in self.samples]
sample_values(reading) == [i \in 1..Len(reading.samples) |-> reading.samples[i].value]

\* the functions handed to apply_function, by name: "dec" and "dbl" are the
\* conversions registered as callbacks; "shorter" and "longer" return a list
\* of another length than the one they are given
function(name, values) ==
    CASE name = "dec" -> [i \in 1..Len(values) |-> values[i] - 1]
      [] name = "dbl" -> [i \in 1..Len(values) |-> 2 * values[i]]
      [] name = "shorter" -> [i \in 1..(Len(values) - 1) |-> values[i] + 1]
      [] name = "longer" -> [i \in 1..(Len(values) + 1) |-> 1]

\* Reading.apply_function: zip(self.samples, output) writes the outputs back
apply_function(reading, name) ==
    LET output == function(name, sample_values(reading))
    IN  [reading EXCEPT !.samples =
            [i \in 1..Len(reading.samples) |->
                IF i <= Len(output)
                THEN [reading.samples[i] EXCEPT !.value = output[i]]
                ELSE reading.samples[i]]]

\* the readings callers construct
Readings ==
    { Reading(t, [i \in 1..Len(v) |-> i], v) : t \in Times, v \in SampleValues }

(***************************************************************************)
(* DataStore                                                               *)
(*                                                                         *)
(* insert(readings) takes its argument one reading at a time (the for loop *)
(* at data.py:286) and never looks ahead, so the model draws the argument  *)
(* reading by reading: a call is Insert, then up to MaxBatch InsertStep,   *)
(* then InsertReturn, or InsertRaise after a step that raised. When it is  *)
(* insert_from_dict that calls insert, the argument is the list it built.  *)
(***************************************************************************)
VARIABLES
    reading_storage_length,   \* DataStore.reading_storage_length
    increase_buffer,          \* DataStore.increase_buffer
    conversion_callbacks,     \* DataStore.conversion_callbacks
    readings,                 \* DataStore.readings
    pc,                       \* "idle", the method that is running, or "raised"
    pos,                      \* how many readings the running insert call has taken
    current,                  \* <<the reading it took last, as it was passed>>
    error,                    \* the exception the running call raised, or "none"
    outcome,                  \* what the loop did with the reading it took last
    calls,                    \* the callback calls made for that reading, in order
    committed,                \* the readings the running call has appended, as stored
    max_bytes,                \* json_repr's argument max_bytes
    max_bytes_data_trim,      \* json_repr's argument max_bytes_data_trim
    json_readings,            \* json_repr's local json_readings
    json_encoded,             \* json_repr's local json_encoded: <<the list it encodes>>
    initial_length,           \* the reading_storage_length the store was built with
    offered,                  \* every reading taken by insert so far, in order,
                              \* kept for as long as their times strictly increase
    ascending,                \* the readings taken so far had strictly increasing times
    one_at_a_time,            \* and every insert call so far was given exactly one
    query,                    \* <<what the query or conversion that ran last returned>>
    pending                   \* <<the readings insert_from_dict built for insert>>

store == <<reading_storage_length, increase_buffer, conversion_callbacks, readings>>
json == <<max_bytes, max_bytes_data_trim, json_readings, json_encoded>>
call == <<pc, pos, current, error, outcome, calls, committed, json, query, pending>>
history == <<initial_length, offered, ascending, one_at_a_time>>
vars == <<store, call, history>>

\* data.py:288-289: reading_time == 0 and no sample with a value != 0
is_not_valid(reading) ==
    /\ reading.reading_time = 0
    /\ ~ \E i \in 1..Len(reading.samples) : reading.samples[i].value # 0

\* is_not_latest with < for <=: a reading at the last stored time gets in
is_not_latest_strict(rs, reading) ==
    /\ Len(rs) > 0
    /\ reading.reading_time < rs[Len(rs)].reading_time

\* data.py:293-294: the store is non-empty and the time is not later than the last
is_not_latest(rs, reading) ==
    /\ Len(rs) > 0
    /\ reading.reading_time <= rs[Len(rs)].reading_time

\* make_room without the increment of data.py:302
make_room_keeps_length(rs, length) ==
    IF Len(rs) >= length /\ ~increase_buffer
    THEN IF rs = <<>>
         THEN [error |-> "IndexError", readings |-> rs, reading_storage_length |-> length]
         ELSE [error |-> "none", readings |-> Tail(rs), reading_storage_length |-> length]
    ELSE [error |-> "none", readings |-> rs, reading_storage_length |-> length]

\* make_room deleting readings[-1] instead of readings[0]
make_room_evicts_newest(rs, length) ==
    IF Len(rs) >= length
    THEN IF increase_buffer
         THEN [error |-> "none", readings |-> rs, reading_storage_length |-> length + 1]
         ELSE IF rs = <<>>
              THEN [error |-> "IndexError", readings |-> rs, reading_storage_length |-> length]
              ELSE [error |-> "none", readings |-> SubSeq(rs, 1, Len(rs) - 1),
                    reading_storage_length |-> length]
    ELSE [error |-> "none", readings |-> rs, reading_storage_length |-> length]

\* make_room with the branches of data.py:300 swapped: it evicts when it should grow
make_room_swapped(rs, length) ==
    IF Len(rs) >= length
    THEN IF ~increase_buffer
         THEN [error |-> "none", readings |-> rs, reading_storage_length |-> length + 1]
         ELSE IF rs = <<>>
              THEN [error |-> "IndexError", readings |-> rs, reading_storage_length |-> length]
              ELSE [error |-> "none", readings |-> Tail(rs), reading_storage_length |-> length]
    ELSE [error |-> "none", readings |-> rs, reading_storage_length |-> length]

\* make_room growing one reading early: it adds a slot while one is still free
make_room_grows_early(rs, length) ==
    IF Len(rs) + 1 >= length
    THEN IF increase_buffer
         THEN [error |-> "none", readings |-> rs, reading_storage_length |-> length + 1]
         ELSE IF Len(rs) < length
              THEN [error |-> "none", readings |-> rs, reading_storage_length |-> length]
              ELSE IF rs = <<>>
              THEN [error |-> "IndexError", readings |-> rs, reading_storage_length |-> length]
              ELSE [error |-> "none", readings |-> Tail(rs), reading_storage_length |-> length]
    ELSE [error |-> "none", readings |-> rs, reading_storage_length |-> length]

\* data.py:299-305: grow the buffer or delete the oldest reading; del of
\* readings[0] on an empty list raises IndexError
make_room(rs, length) ==
    IF Len(rs) >= length
    THEN IF increase_buffer
         THEN [error |-> "none", readings |-> rs, reading_storage_length |-> length + 1]
         ELSE IF rs = <<>>
              THEN [error |-> "IndexError", readings |-> rs, reading_storage_length |-> length]
              ELSE [error |-> "none", readings |-> Tail(rs), reading_storage_length |-> length]
    ELSE [error |-> "none", readings |-> rs, reading_storage_length |-> length]

\* data.py:317: map(lambda func: reading.apply_function(func), callbacks),
\* with the calls it makes recorded in order
RECURSIVE map_apply_function(_, _, _)
map_apply_function(reading, callbacks, made) ==
    IF callbacks = <<>>
    THEN [reading |-> reading, calls |-> made]
    ELSE map_apply_function(
            apply_function(reading, Head(callbacks)),
            Tail(callbacks),
            Append(made, [function |-> Head(callbacks), values |-> sample_values(reading)]))

Reverse(s) == [i \in 1..Len(s) |-> s[Len(s) + 1 - i]]

\* _insert_reading running the callbacks last-registered first
_insert_reading_reversed(rs, reading) ==
    LET converted == map_apply_function(reading, Reverse(conversion_callbacks), <<>>)
    IN  [readings |-> Append(rs, converted.reading), calls |-> converted.calls]

\* _insert_reading putting the reading at the front of the list
_insert_reading_in_front(rs, reading) ==
    LET converted == map_apply_function(reading, conversion_callbacks, <<>>)
    IN  [readings |-> <<converted.reading>> \o rs, calls |-> converted.calls]

\* DataStore._insert_reading: convert, then append
_insert_reading(rs, reading) ==
    LET converted == map_apply_function(reading, conversion_callbacks, <<>>)
    IN  [readings |-> Append(rs, converted.reading), calls |-> converted.calls]

\* insert_one making room before the time check: a rejected reading still evicts
insert_one_room_first(rs, length, reading) ==
    IF is_not_valid(reading)
    THEN [outcome |-> "skipped", error |-> "none", readings |-> rs,
          reading_storage_length |-> length, calls |-> <<>>]
    ELSE LET room == make_room(rs, length)
         IN  IF room.error # "none"
             THEN [outcome |-> "no_room", error |-> room.error, readings |-> rs,
                   reading_storage_length |-> length, calls |-> <<>>]
             ELSE IF is_not_latest(rs, reading)
             THEN [outcome |-> "rejected", error |-> "NonMonotonicTime",
                   readings |-> room.readings,
                   reading_storage_length |-> room.reading_storage_length, calls |-> <<>>]
             ELSE LET added == _insert_reading(room.readings, reading)
                  IN  [outcome |-> "accepted", error |-> "none",
                       readings |-> added.readings,
                       reading_storage_length |-> room.reading_storage_length,
                       calls |-> added.calls]

\* insert_one with the time check before the no-data check
insert_one_time_first(rs, length, reading) ==
    IF is_not_latest(rs, reading)
    THEN [outcome |-> "rejected", error |-> "NonMonotonicTime", readings |-> rs,
          reading_storage_length |-> length, calls |-> <<>>]
    ELSE IF is_not_valid(reading)
    THEN [outcome |-> "skipped", error |-> "none", readings |-> rs,
          reading_storage_length |-> length, calls |-> <<>>]
    ELSE LET room == make_room(rs, length)
         IN  IF room.error # "none"
             THEN [outcome |-> "no_room", error |-> room.error, readings |-> rs,
                   reading_storage_length |-> length, calls |-> <<>>]
             ELSE LET added == _insert_reading(room.readings, reading)
                  IN  [outcome |-> "accepted", error |-> "none",
                       readings |-> added.readings,
                       reading_storage_length |-> room.reading_storage_length,
                       calls |-> added.calls]

\* insert_one passing over a reading that is not the latest instead of raising
insert_one_passes_over(rs, length, reading) ==
    IF is_not_valid(reading)
    THEN [outcome |-> "skipped", error |-> "none", readings |-> rs,
          reading_storage_length |-> length, calls |-> <<>>]
    ELSE IF is_not_latest(rs, reading)
    THEN [outcome |-> "rejected", error |-> "none", readings |-> rs,
          reading_storage_length |-> length, calls |-> <<>>]
    ELSE LET room == make_room(rs, length)
         IN  IF room.error # "none"
             THEN [outcome |-> "no_room", error |-> room.error, readings |-> rs,
                   reading_storage_length |-> length, calls |-> <<>>]
             ELSE LET added == _insert_reading(room.readings, reading)
                  IN  [outcome |-> "accepted", error |-> "none",
                       readings |-> added.readings,
                       reading_storage_length |-> room.reading_storage_length,
                       calls |-> added.calls]

\* the body of the loop of DataStore.insert for one reading (data.py:286-308)
insert_one(rs, length, reading) ==
    IF is_not_valid(reading)
    THEN [outcome |-> "skipped", error |-> "none", readings |-> rs,
          reading_storage_length |-> length, calls |-> <<>>]
    ELSE IF is_not_latest(rs, reading)
    THEN [outcome |-> "rejected", error |-> "NonMonotonicTime", readings |-> rs,
          reading_storage_length |-> length, calls |-> <<>>]
    ELSE LET room == make_room(rs, length)
         IN  IF room.error # "none"
             THEN [outcome |-> "no_room", error |-> room.error, readings |-> rs,
                   reading_storage_length |-> length, calls |-> <<>>]
             ELSE LET added == _insert_reading(room.readings, reading)
                  IN  [outcome |-> "accepted", error |-> "none",
                       readings |-> added.readings,
                       reading_storage_length |-> room.reading_storage_length,
                       calls |-> added.calls]

\* DataStore.__init__: an empty store
Init ==
    /\ reading_storage_length \in Lengths
    /\ increase_buffer \in BOOLEAN
    /\ conversion_callbacks \in CallbackLists
    /\ readings = <<>>
    /\ pc = "idle"
    /\ pos = 0
    /\ current = <<>>
    /\ error = "none"
    /\ outcome = "none"
    /\ calls = <<>>
    /\ committed = <<>>
    /\ max_bytes = 0
    /\ max_bytes_data_trim = TRUE
    /\ json_readings = <<>>
    /\ json_encoded = <<>>
    /\ initial_length = reading_storage_length
    /\ offered = <<>>
    /\ ascending = TRUE
    /\ one_at_a_time = TRUE
    /\ query = <<>>
    /\ pending = <<>>

\* a caller calls insert
Insert ==
    /\ pc = "idle"
    /\ pc' = "insert"
    /\ UNCHANGED <<store, pos, current, error, outcome, calls, committed, json, history, query, pending>>

\* one turn of the loop at data.py:286 with the next reading of the argument;
\* an exception leaves the loop
InsertStep(reading) ==
    /\ pc = "insert"
    /\ pos < MaxBatch
    /\ pending # <<>> => (pos < Len(pending[1]) /\ reading = pending[1][pos + 1])
    /\ LET done == insert_one(readings, reading_storage_length, reading)
       IN  /\ readings' = done.readings
           /\ reading_storage_length' = done.reading_storage_length
           /\ outcome' = done.outcome
           /\ calls' = done.calls
           /\ error' = done.error
           /\ pc' = IF done.error = "none" THEN "insert" ELSE "raised"
           /\ committed' = IF done.outcome = "accepted"
                           THEN Append(committed, done.readings[Len(done.readings)])
                           ELSE committed
    /\ pos' = pos + 1
    /\ current' = <<reading>>
    /\ ascending' = (ascending /\ (offered = <<>> \/
                        offered[Len(offered)].reading_time < reading.reading_time))
    /\ offered' = IF ascending' THEN Append(offered, reading) ELSE <<>>
    /\ UNCHANGED <<increase_buffer, conversion_callbacks, json, initial_length, one_at_a_time,
                   query, pending>>

\* control is back with the caller; the call's locals are gone
back_to_caller ==
    /\ pc' = "idle"
    /\ pos' = 0
    /\ current' = <<>>
    /\ error' = "none"
    /\ outcome' = "none"
    /\ calls' = <<>>
    /\ committed' = <<>>
    /\ max_bytes' = 0
    /\ max_bytes_data_trim' = TRUE
    /\ json_readings' = <<>>
    /\ json_encoded' = <<>>
    /\ query' = <<>>
    /\ pending' = <<>>
    /\ UNCHANGED <<store, initial_length, offered, ascending>>

\* the argument is exhausted: insert returns (and with it insert_from_dict,
\* whose last statement the call is)
InsertReturn ==
    /\ pc = "insert"
    /\ pending # <<>> => pos = Len(pending[1])
    /\ back_to_caller
    /\ one_at_a_time' = (ascending /\ one_at_a_time /\ pos = 1)

\* the exception raised in the loop reaches the caller of insert
InsertRaise ==
    /\ pc = "raised"
    /\ back_to_caller
    /\ one_at_a_time' = (ascending /\ one_at_a_time /\ pos = 1)

(***************************************************************************)
(* DataStore.json_repr                                                     *)
(*                                                                         *)
(* json.dumps is one-to-one on the lists it is given here, so the model    *)
(* keeps the encoded string as the list it encodes and computes its length *)
(* character by character as json.dumps writes it (separators ", " and     *)
(* ": ", floats as repr writes them).                                      *)
(***************************************************************************)
\* the max_bytes values callers pass: below "[]", exactly "[]", room for one
\* one-channel reading, room for two readings
MaxBytesChoices == { 1, 2, 100, 200 }

\* len(str(n)) for the integers of the model
int_len(n) ==
    IF n < 0 THEN 1 + (IF 0 - n < 10 THEN 1 ELSE 2)
    ELSE IF n < 10 THEN 1 ELSE 2

\* len(repr(x)) for an integer-valued float: the digits and ".0"
float_len(x) == int_len(x) + 2

RECURSIVE sum(_)
sum(lens) == IF lens = <<>> THEN 0 ELSE Head(lens) + sum(Tail(lens))

\* a JSON array: "[", the items joined by ", ", "]"
array_len(lens) ==
    IF lens = <<>> THEN 2 ELSE 2 + sum(lens) + 2 * (Len(lens) - 1)

\* Sample.dict_repr
sample_dict_repr(sample) == [channel |-> sample.channel, value |-> sample.value]

\* Reading.dict_repr
dict_repr(reading) ==
    [ reading_time |-> reading.reading_time,
      channels     |-> reading.channels,
      samples      |-> [i \in 1..Len(reading.samples) |-> sample_dict_repr(reading.samples[i])] ]

\* {"channel": c, "value": v}
sample_json_len(d) == 12 + int_len(d.channel) + 11 + float_len(d.value) + 1

\* {"reading_time": t, "channels": [...], "samples": [...]}
reading_json_len(d) ==
    1 + 16 + int_len(d.reading_time)
      + 2 + 12 + array_len([i \in 1..Len(d.channels) |-> int_len(d.channels[i])])
      + 2 + 11 + array_len([i \in 1..Len(d.samples) |-> sample_json_len(d.samples[i])])
      + 1

\* len(json.dumps(dicts))
json_dumps_len(dicts) == array_len([i \in 1..Len(dicts) |-> reading_json_len(dicts[i])])

\* a caller calls json_repr(bytes, trim); data.py:248-251
JsonRepr(bytes, trim) ==
    /\ pc = "idle"
    /\ max_bytes' = bytes
    /\ max_bytes_data_trim' = trim
    /\ json_readings' = [i \in 1..Len(readings) |-> dict_repr(readings[i])]
    /\ json_encoded' = <<json_readings'>>
    /\ pc' = "json_if"
    /\ UNCHANGED <<store, pos, current, error, outcome, calls, committed, history, query, pending>>

\* JsonIf with >= for >: an encoding of exactly max_bytes characters is too large
JsonIf_at_least ==
    /\ pc = "json_if"
    /\ IF json_dumps_len(json_encoded[1]) >= max_bytes
       THEN IF max_bytes_data_trim
            THEN pc' = "json_while" /\ error' = error
            ELSE pc' = "json_raised" /\ error' = "PayloadTooLarge"
       ELSE pc' = "json_return" /\ error' = error
    /\ UNCHANGED <<store, pos, current, outcome, calls, committed, json, history, query, pending>>

\* data.py:254-265: the length check, and the exception when trimming is off
JsonIf ==
    /\ pc = "json_if"
    /\ IF json_dumps_len(json_encoded[1]) > max_bytes
       THEN IF max_bytes_data_trim
            THEN pc' = "json_while" /\ error' = error
            ELSE pc' = "json_raised" /\ error' = "PayloadTooLarge"
       ELSE pc' = "json_return" /\ error' = error
    /\ UNCHANGED <<store, pos, current, outcome, calls, committed, json, history, query, pending>>

\* data.py:259: the test of the while loop
JsonWhile ==
    /\ pc = "json_while"
    /\ pc' = IF json_dumps_len(json_encoded[1]) > max_bytes
             THEN "json_trim" ELSE "json_return"
    /\ UNCHANGED <<store, pos, current, error, outcome, calls, committed, json, history, query, pending>>

\* json_readings[1:]: the oldest reading is dropped instead of the newest
all_but_first(s) == SubSeq(s, 2, Len(s))

\* json_readings[:-1]
all_but_last(s) == SubSeq(s, 1, Len(s) - 1)

\* data.py:261: json_encoded = json.dumps(json_readings[:-1])
JsonTrim ==
    /\ pc = "json_trim"
    /\ json_encoded' = <<all_but_last(json_readings)>>
    /\ pc' = "json_while"
    /\ UNCHANGED <<store, pos, current, error, outcome, calls, committed,
                   max_bytes, max_bytes_data_trim, json_readings, history, query, pending>>

\* data.py:267: json_repr returns json_encoded
JsonReturn ==
    /\ pc = "json_return"
    /\ back_to_caller
    /\ UNCHANGED one_at_a_time

\* the exception of data.py:264 reaches the caller of json_repr
JsonRaise ==
    /\ pc = "json_raised"
    /\ back_to_caller
    /\ UNCHANGED one_at_a_time

(***************************************************************************)
(* Queries and the stores they return                                      *)
(*                                                                         *)
(* A store other than the one of the state variables is a record of its    *)
(* four attributes. insert on such an object is the same loop, written     *)
(* over the record.                                                        *)
(***************************************************************************)
\* DataStore(reading_storage_length): increase_buffer and conversion_callbacks
\* take the defaults of data.py:165-166
DataStore(length) ==
    [ reading_storage_length |-> length,
      increase_buffer        |-> FALSE,
      conversion_callbacks   |-> <<>>,
      readings               |-> <<>> ]

\* the store of the state variables, as an object
self == [ reading_storage_length |-> reading_storage_length,
          increase_buffer        |-> increase_buffer,
          conversion_callbacks   |-> conversion_callbacks,
          readings               |-> readings ]

\* obj._insert_reading(reading), data.py:310-320
_insert_reading_into(obj, reading) ==
    [obj EXCEPT !.readings =
        Append(@, map_apply_function(reading, obj.conversion_callbacks, <<>>).reading)]

\* one turn of the loop of obj.insert, data.py:286-308
insert_one_into(obj, reading) ==
    IF is_not_valid(reading)
    THEN [error |-> "none", obj |-> obj]
    ELSE IF is_not_latest(obj.readings, reading)
    THEN [error |-> "NonMonotonicTime", obj |-> obj]
    ELSE IF Len(obj.readings) >= obj.reading_storage_length
    THEN IF obj.increase_buffer
         THEN [error |-> "none",
               obj |-> _insert_reading_into(
                          [obj EXCEPT !.reading_storage_length = @ + 1], reading)]
         ELSE IF obj.readings = <<>>
              THEN [error |-> "IndexError", obj |-> obj]
              ELSE [error |-> "none",
                    obj |-> _insert_reading_into(
                               [obj EXCEPT !.readings = Tail(@)], reading)]
    ELSE [error |-> "none", obj |-> _insert_reading_into(obj, reading)]

\* obj.insert(list): the loop stops at the first exception
RECURSIVE insert_into(_, _)
insert_into(obj, list) ==
    IF list = <<>>
    THEN [error |-> "none", obj |-> obj]
    ELSE LET done == insert_one_into(obj, Head(list))
         IN  IF done.error # "none" THEN done ELSE insert_into(done.obj, Tail(list))

\* instance_with_readings building the new store with this store's callbacks
instance_with_readings_converting(list) ==
    insert_into([DataStore(reading_storage_length)
                    EXCEPT !.conversion_callbacks = conversion_callbacks], list)

\* DataStore.instance_with_readings, data.py:211-224
instance_with_readings(list) ==
    insert_into(DataStore(reading_storage_length), list)

\* DataStore.find_reading: the first reading at the timestamp, <<>> for None
find_reading(timestamp) ==
    LET matching == SelectSeq(readings, LAMBDA reading : reading.reading_time = timestamp)
    IN  IF matching = <<>> THEN <<>> ELSE <<Head(matching)>>

\* DataStore.find_readings_after
find_readings_after(timestamp) ==
    instance_with_readings(
        SelectSeq(readings, LAMBDA reading : reading.reading_time > timestamp))

\* DataStore.find_readings_before
find_readings_before(timestamp) ==
    instance_with_readings(
        SelectSeq(readings, LAMBDA reading : reading.reading_time <= timestamp))

\* Reading.list_repr: the time, then the sample values
list_repr(reading) == <<reading.reading_time>> \o sample_values(reading)

\* Reading.csv_repr: str() of each item of list_repr, joined by ","; the
\* model keeps the row as the items it joins
csv_repr(reading) == list_repr(reading)

\* the timestamps callers ask for: every reading_time, and one below them all
Timestamps == (0 - 2)..MaxTime

\* a caller calls find_reading(timestamp)
FindReading(timestamp) ==
    /\ pc = "idle"
    /\ query' = <<[method |-> "find_reading", timestamp |-> timestamp,
                   returned |-> find_reading(timestamp)]>>
    /\ pc' = "query_return"
    /\ UNCHANGED <<store, pos, current, error, outcome, calls, committed, json,
                   history, pending>>

\* what a call returning a new store leaves: the store, or the exception
new_store(method, timestamp, made) ==
    /\ query' = <<[method |-> method, timestamp |-> timestamp, returned |-> made.obj]>>
    /\ error' = made.error
    /\ pc' = IF made.error = "none" THEN "query_return" ELSE "query_raised"
    /\ UNCHANGED <<store, pos, current, outcome, calls, committed, json, history, pending>>

\* a caller calls find_readings_after(timestamp)
FindReadingsAfter(timestamp) ==
    /\ pc = "idle"
    /\ new_store("find_readings_after", timestamp, find_readings_after(timestamp))

\* a caller calls find_readings_before(timestamp)
FindReadingsBefore(timestamp) ==
    /\ pc = "idle"
    /\ new_store("find_readings_before", timestamp, find_readings_before(timestamp))

\* a caller calls csv_repr(): the rows, which the source joins by "\n"
CsvRepr ==
    /\ pc = "idle"
    /\ query' = <<[method |-> "csv_repr", timestamp |-> 0,
                   returned |-> [i \in 1..Len(readings) |-> csv_repr(readings[i])]]>>
    /\ pc' = "query_return"
    /\ UNCHANGED <<store, pos, current, error, outcome, calls, committed, json,
                   history, pending>>

\* a caller calls list_repr()
ListRepr ==
    /\ pc = "idle"
    /\ query' = <<[method |-> "list_repr", timestamp |-> 0,
                   returned |-> [i \in 1..Len(readings) |-> csv_repr(readings[i])]]>>
    /\ pc' = "query_return"
    /\ UNCHANGED <<store, pos, current, error, outcome, calls, committed, json,
                   history, pending>>

\* the query returns to its caller
QueryReturn ==
    /\ pc = "query_return"
    /\ back_to_caller
    /\ UNCHANGED one_at_a_time

\* the exception raised by insert in instance_with_readings reaches the caller
QueryRaise ==
    /\ pc = "query_raised"
    /\ back_to_caller
    /\ UNCHANGED one_at_a_time

(***************************************************************************)
(* Stores from dict lists                                                  *)
(*                                                                         *)
(* A row is what Reading.dict_repr makes: reading_time, channels and the   *)
(* samples' dicts. The channels of the rows are channels Channel.is_valid  *)
(* accepts, and their times and values are numbers.                        *)
(***************************************************************************)
\* Reading(reading_time, channels, values) with the check of data.py:39-41
\* (len() of these short lists are small ints, so "is not" is "!=")
new_Reading(reading_time, channels, values) ==
    IF Len(channels) # Len(values)
    THEN [error |-> "Exception", reading |-> <<>>]
    ELSE [error |-> "none", reading |-> <<Reading(reading_time, channels, values)>>]

\* the loop of insert_from_dict, data.py:328-335: a Reading per row, until
\* one cannot be constructed
RECURSIVE build_readings(_, _)
build_readings(ddict, built) ==
    IF ddict = <<>>
    THEN [error |-> "none", readings |-> built]
    ELSE LET row == Head(ddict)
             values == [i \in 1..Len(row.samples) |-> row.samples[i].value]
             made == new_Reading(row.reading_time, row.channels, values)
         IN  IF made.error # "none"
             THEN [error |-> made.error, readings |-> built]
             ELSE build_readings(Tail(ddict), Append(built, made.reading[1]))

\* obj.insert_from_dict(ddict), data.py:322-338
insert_from_dict_into(obj, ddict) ==
    LET built == build_readings(ddict, <<>>)
    IN  IF built.error # "none"
        THEN [error |-> built.error, obj |-> obj]
        ELSE insert_into(obj, built.readings)

\* DataStore.instance_from_dict(ddict), data.py:184-198
instance_from_dict(ddict) == insert_from_dict_into(DataStore(Len(ddict)), ddict)

\* a caller reloads the store's own dict list:
\* DataStore.instance_from_dict([reading.dict_repr() for reading in readings])
InstanceFromDict ==
    /\ pc = "idle"
    /\ new_store("instance_from_dict", 0,
                 instance_from_dict([i \in 1..Len(readings) |-> dict_repr(readings[i])]))

(***************************************************************************)
(* Reading.apply_function called on its own, on a reading outside of any   *)
(* store.                                                                  *)
(***************************************************************************)
Functions == { "dec", "dbl", "shorter", "longer" }

\* a caller calls reading.apply_function(function): data.py:102-113 has no
\* raise, the call returns with the reading as the zip loop left it
ApplyFunction(reading, name) ==
    /\ pc = "idle"
    /\ query' = <<[method |-> "apply_function", timestamp |-> 0,
                   reading |-> reading,
                   output |-> function(name, sample_values(reading)),
                   returned |-> apply_function(reading, name)]>>
    /\ pc' = "query_return"
    /\ UNCHANGED <<store, pos, current, error, outcome, calls, committed, json,
                   history, pending>>

ApplyNext ==
    \/ \E reading \in Readings, name \in Functions : ApplyFunction(reading, name)
    \/ QueryReturn

ApplySpec == Init /\ [][ApplyNext]_vars

(***************************************************************************)
(* DataStore.insert_from_dict on the store of the state variables          *)
(***************************************************************************)
\* a row as dict_repr makes it, and the same row with a channel too many
row(reading_time, values) ==
    dict_repr(Reading(reading_time, [i \in 1..Len(values) |-> i], values))

row_with_a_channel_too_many(reading_time, values) ==
    [row(reading_time, values) EXCEPT !.channels = Append(@, Len(values) + 1)]

\* the rows callers pass: a no-data row, two rows of data, a malformed row
DictRows ==
    { row(0, <<0>>), row(1, <<1>>), row(2, <<0, 1>>),
      row_with_a_channel_too_many(1, <<1>>) }

\* the dict lists callers pass: up to MaxBatch rows
DictLists == UNION { [1..n -> DictRows] : n \in 0..MaxBatch }

\* insert_from_dict inserting each row's reading as soon as it is built
InsertFromDict_row_by_row(ddict) ==
    /\ pc = "idle"
    /\ query' = <<[method |-> "insert_from_dict", timestamp |-> 0, ddict |-> ddict]>>
    /\ LET built == build_readings(ddict, <<>>)
       IN  IF built.error # "none"
           THEN /\ pc' = "dict_raised"
                /\ error' = built.error
                /\ readings' = insert_into(self, built.readings).obj.readings
                /\ reading_storage_length' =
                      insert_into(self, built.readings).obj.reading_storage_length
                /\ pending' = pending
           ELSE /\ pc' = "insert"
                /\ error' = error
                /\ pending' = <<built.readings>>
                /\ UNCHANGED <<readings, reading_storage_length>>
    /\ UNCHANGED <<increase_buffer, conversion_callbacks, pos, current, outcome, calls,
                   committed, json, history>>

\* a caller calls insert_from_dict(ddict), data.py:322-338: the Readings are
\* built first; the exception of a row that cannot be built leaves the
\* method before insert is called
InsertFromDict(ddict) ==
    /\ pc = "idle"
    /\ query' = <<[method |-> "insert_from_dict", timestamp |-> 0, ddict |-> ddict]>>
    /\ LET built == build_readings(ddict, <<>>)
       IN  IF built.error # "none"
           THEN /\ pc' = "dict_raised"
                /\ error' = built.error
                /\ pending' = pending
           ELSE /\ pc' = "insert"
                /\ error' = error
                /\ pending' = <<built.readings>>
    /\ UNCHANGED <<store, pos, current, outcome, calls, committed, json, history>>

\* the exception of Reading(...) reaches the caller of insert_from_dict
DictRaise ==
    /\ pc = "dict_raised"
    /\ back_to_caller
    /\ UNCHANGED one_at_a_time

DictNext ==
    \/ \E ddict \in DictLists : InsertFromDict(ddict)
    \/ \E reading \in Readings : InsertStep(reading)
    \/ InsertReturn
    \/ InsertRaise
    \/ DictRaise

DictSpec == Init /\ [][DictNext]_vars

Next ==
    \/ Insert
    \/ \E reading \in Readings : InsertStep(reading)
    \/ InsertReturn
    \/ InsertRaise
    \/ \E bytes \in MaxBytesChoices, trim \in BOOLEAN : JsonRepr(bytes, trim)
    \/ JsonIf
    \/ JsonWhile
    \/ JsonTrim
    \/ JsonReturn
    \/ JsonRaise
    \/ \E timestamp \in Timestamps : FindReading(timestamp)
    \/ \E timestamp \in Timestamps : FindReadingsAfter(timestamp)
    \/ \E timestamp \in Timestamps : FindReadingsBefore(timestamp)
    \/ CsvRepr
    \/ ListRepr
    \/ InstanceFromDict
    \/ QueryReturn
    \/ QueryRaise

Spec == Init /\ [][Next]_vars

\* the program is one thread that takes its next step whenever it has one
FairSpec == Spec /\ WF_vars(JsonIf) /\ WF_vars(JsonWhile) /\ WF_vars(JsonTrim)
                 /\ WF_vars(JsonReturn) /\ WF_vars(JsonRaise)

(***************************************************************************)
(* Vocabulary of the properties, stated apart from the operators above.    *)
(***************************************************************************)
\* a reading that says "no data captured": time 0 and every sample value zero
NoDataCaptured(r) ==
    /\ r.reading_time = 0
    /\ \A i \in DOMAIN r.samples : r.samples[i].value = 0

NoneIsNoData(rs) == \A i \in DOMAIN rs : ~NoDataCaptured(rs[i])

\* the largest reading_time in a non-empty list of readings
MaxTimestamp(rs) ==
    CHOOSE t \in { rs[i].reading_time : i \in DOMAIN rs } :
        \A i \in DOMAIN rs : rs[i].reading_time <= t

NotAfterTheStore(r) == readings # <<>> /\ r.reading_time <= MaxTimestamp(readings)

LastN(s, n) == SubSeq(s, Len(s) - n + 1, Len(s))

Smaller(a, b) == IF a <= b THEN a ELSE b

\* what one conversion function makes of one value
Converted(name, x) == IF name = "dec" THEN x - 1 ELSE 2 * x

\* a value after the functions fs, first to last
RECURSIVE ConvertedBy(_, _)
ConvertedBy(fs, x) ==
    IF fs = <<>> THEN x ELSE ConvertedBy(Tail(fs), Converted(Head(fs), x))

\* the reading r as this store holds it once accepted
AsStored(r) ==
    [ reading_time |-> r.reading_time,
      channels     |-> r.channels,
      samples      |-> [i \in DOMAIN r.samples |->
                          [ channel |-> r.samples[i].channel,
                            value   |-> ConvertedBy(conversion_callbacks, r.samples[i].value) ]] ]

AllAsStored(rs) == [i \in DOMAIN rs |-> AsStored(rs[i])]

\* this step is a turn of insert's loop, with the reading current'[1]
LoopTurn == pc = "insert" /\ pos' = pos + 1

StoreUnchanged ==
    /\ readings' = readings
    /\ reading_storage_length' = reading_storage_length
    /\ increase_buffer' = increase_buffer
    /\ conversion_callbacks' = conversion_callbacks

(***************************************************************************)
(* C1: in every state reachable by insert calls (single readings or        *)
(* batches, succeeding or failing, either buffer mode) the stored readings *)
(* are strictly ascending by reading_time: no duplicates, none out of      *)
(* order.                                                                  *)
(***************************************************************************)
C1_StrictlyAscending ==
    \A i, j \in DOMAIN readings :
        i < j => readings[i].reading_time < readings[j].reading_time

\* three readings are stored and an insert has just been refused
C1_Witness ==
    /\ Len(readings) >= 3
    /\ pc = "raised"
    /\ error = "NonMonotonicTime"

(***************************************************************************)
(* C2 as claimed: for any initial capacity, the number of stored readings  *)
(* never exceeds reading_storage_length.                                   *)
(***************************************************************************)
C2_Original == Len(readings) <= reading_storage_length

(***************************************************************************)
(* C2 as amended: for any initial capacity that is not negative, the       *)
(* number of stored readings never exceeds reading_storage_length (a hard  *)
(* bound without increase_buffer, a grown one with it).                    *)
(***************************************************************************)
C2_Amended ==
    initial_length >= 0 => Len(readings) <= reading_storage_length

\* a store built with capacity 0 that has grown to hold three readings
C2_Witness ==
    /\ initial_length = 0
    /\ increase_buffer
    /\ Len(readings) = 3
    /\ reading_storage_length = 3

(***************************************************************************)
(* C3 as claimed: inserting a reading whose reading_time is less than or   *)
(* equal to the store's current maximum timestamp always fails with the    *)
(* non-monotonic-time error and leaves the store unchanged.                *)
(***************************************************************************)
C3_Original ==
    [][ (LoopTurn /\ NotAfterTheStore(current'[1]))
            => (error' = "NonMonotonicTime" /\ StoreUnchanged) ]_vars

(***************************************************************************)
(* C3 as amended: inserting a reading whose reading_time is less than or   *)
(* equal to the store's current maximum timestamp, and which is not a      *)
(* no-data reading (time 0, all samples zero), always fails with the       *)
(* non-monotonic-time error and leaves the store unchanged: same readings  *)
(* in the same order, same capacity, nothing evicted.                      *)
(***************************************************************************)
C3_Amended ==
    [][ (LoopTurn /\ NotAfterTheStore(current'[1]) /\ ~NoDataCaptured(current'[1]))
            => (error' = "NonMonotonicTime" /\ StoreUnchanged) ]_vars

\* a full evicting store has just refused a reading and still holds all it held
C3_Witness ==
    /\ pc = "raised"
    /\ error = "NonMonotonicTime"
    /\ ~increase_buffer
    /\ Len(readings) = 2
    /\ reading_storage_length = 2
    /\ current[1].reading_time <= readings[2].reading_time

(***************************************************************************)
(* C4 as claimed: with increase_buffer false and capacity C, inserting C+k *)
(* readings (k > 0) with strictly increasing timestamps one at a time      *)
(* leaves exactly C readings: the C most recent, in insertion order.       *)
(***************************************************************************)
C4_Original ==
    ( /\ pc = "idle"
      /\ ~increase_buffer
      /\ initial_length >= 0
      /\ ascending
      /\ one_at_a_time
      /\ Len(offered) > initial_length )
    => ( /\ Len(readings) = initial_length
         /\ readings = LastN(AllAsStored(offered), initial_length) )

(***************************************************************************)
(* C4 as amended: with increase_buffer false and capacity C >= 0,          *)
(* inserting C+k readings (k > 0), none of them a no-data reading, with    *)
(* strictly increasing timestamps one at a time leaves exactly C readings: *)
(* the k oldest evicted, the C most recent kept, in insertion order.       *)
(***************************************************************************)
C4_Amended ==
    ( /\ pc = "idle"
      /\ ~increase_buffer
      /\ initial_length >= 0
      /\ ascending
      /\ one_at_a_time
      /\ NoneIsNoData(offered)
      /\ Len(offered) > initial_length )
    => ( /\ Len(readings) = initial_length
         /\ readings = LastN(AllAsStored(offered), initial_length) )

\* capacity 2, four readings inserted one at a time through the callbacks
C4_Witness ==
    /\ pc = "idle"
    /\ ~increase_buffer
    /\ initial_length = 2
    /\ ascending
    /\ one_at_a_time
    /\ NoneIsNoData(offered)
    /\ Len(offered) = 4
    /\ conversion_callbacks # <<>>

(***************************************************************************)
(* C5 as claimed: with increase_buffer true and initial capacity C,        *)
(* inserting C+k readings (k > 0) with strictly increasing timestamps      *)
(* leaves all C+k readings in insertion order and reading_storage_length   *)
(* equal to C+k.                                                           *)
(***************************************************************************)
C5_Original ==
    ( /\ pc = "idle"
      /\ increase_buffer
      /\ initial_length >= 0
      /\ ascending
      /\ Len(offered) > initial_length )
    => ( /\ readings = AllAsStored(offered)
         /\ reading_storage_length = Len(offered) )

(***************************************************************************)
(* C5 as amended: with increase_buffer true and initial capacity C >= 0,   *)
(* inserting C+k readings (k > 0), none of them a no-data reading, with    *)
(* strictly increasing timestamps leaves all C+k readings in insertion     *)
(* order and reading_storage_length equal to C+k.                          *)
(***************************************************************************)
C5_Amended ==
    ( /\ pc = "idle"
      /\ increase_buffer
      /\ initial_length >= 0
      /\ ascending
      /\ NoneIsNoData(offered)
      /\ Len(offered) > initial_length )
    => ( /\ readings = AllAsStored(offered)
         /\ reading_storage_length = Len(offered) )

\* capacity 1, three readings inserted, not all in calls of one
C5_Witness ==
    /\ pc = "idle"
    /\ increase_buffer
    /\ initial_length = 1
    /\ ascending
    /\ ~one_at_a_time
    /\ NoneIsNoData(offered)
    /\ Len(offered) = 3

(***************************************************************************)
(* C6: a reading with reading_time 0 and all sample values zero is always  *)
(* skipped by insert, in every store state and at any position of a batch: *)
(* no error, readings and capacity unchanged, nothing evicted, and the     *)
(* loop goes on to the rest of the batch.                                  *)
(***************************************************************************)
C6_NoDataSkipped ==
    [][ (LoopTurn /\ NoDataCaptured(current'[1]))
            => (error' = "none" /\ pc' = "insert" /\ StoreUnchanged) ]_vars

\* a full evicting store whose last time is not before 0 has just skipped
\* the second reading of a batch
C6_Witness ==
    /\ pc = "insert"
    /\ pos = 2
    /\ NoDataCaptured(current[1])
    /\ ~increase_buffer
    /\ Len(readings) = reading_storage_length
    /\ Len(readings) >= 1
    /\ readings[Len(readings)].reading_time >= 0

(***************************************************************************)
(* C7 as claimed: for every sequence of readings with strictly increasing  *)
(* timestamps inserted one at a time into an empty store whose capacity is *)
(* at least the sequence length, the final store's readings equal the      *)
(* input sequence, element for element and in order.                       *)
(***************************************************************************)
C7_Original ==
    ( /\ pc = "idle"
      /\ ascending
      /\ one_at_a_time
      /\ initial_length >= Len(offered) )
    => readings = AllAsStored(offered)

(***************************************************************************)
(* C7 as amended: for every sequence of readings, none of them a no-data   *)
(* reading, with strictly increasing timestamps inserted one at a time     *)
(* into an empty store whose capacity is at least the sequence length, the *)
(* final store's readings are the input sequence, element for element and  *)
(* in order.                                                               *)
(***************************************************************************)
C7_Amended ==
    ( /\ pc = "idle"
      /\ ascending
      /\ one_at_a_time
      /\ NoneIsNoData(offered)
      /\ initial_length >= Len(offered) )
    => readings = AllAsStored(offered)

\* two readings inserted one at a time into a store of capacity 2
C7_Witness ==
    /\ pc = "idle"
    /\ ascending
    /\ one_at_a_time
    /\ NoneIsNoData(offered)
    /\ Len(offered) = 2
    /\ initial_length = 2

(***************************************************************************)
(* C8: batch insert is not atomic. When a reading of a batch fails the     *)
(* monotonic-time check the call fails; what the readings before it did    *)
(* (appends, evictions, growth) stays; the failing reading is not          *)
(* inserted, and no reading after it is taken.                             *)
(***************************************************************************)
C8_NotAtomic ==
    /\ [][ (LoopTurn /\ NotAfterTheStore(current'[1]) /\ ~NoDataCaptured(current'[1]))
             => (pc' = "raised" /\ error' = "NonMonotonicTime"
                 /\ StoreUnchanged /\ committed' = committed) ]_vars
    /\ [][ pc = "raised" => (pc' = "idle" /\ StoreUnchanged) ]_vars
    /\ [](pc = "raised" =>
            LET n == Smaller(Len(committed), Len(readings))
            IN  LastN(readings, n) = LastN(committed, n))

\* the first reading of a batch was accepted into a full evicting store, the
\* second has just failed the check
C8_Witness ==
    /\ pc = "raised"
    /\ error = "NonMonotonicTime"
    /\ pos = 2
    /\ Len(committed) = 1
    /\ ~increase_buffer
    /\ Len(readings) = reading_storage_length
    /\ readings[Len(readings)] = committed[1]

(***************************************************************************)
(* C9: for every accepted reading insert applies each registered           *)
(* conversion callback exactly once, in registration order, after the skip *)
(* and monotonic-time checks and before the append, so the stored values   *)
(* are the callbacks composed in order; no callback runs on a reading that *)
(* is skipped as no-data or rejected as non-monotonic.                     *)
(***************************************************************************)
C9_CallbacksInOrder ==
    [][ LoopTurn =>
          LET r == current'[1]
              n == Len(conversion_callbacks)
          IN  IF NoDataCaptured(r) \/ NotAfterTheStore(r) \/ error' # "none"
              THEN calls' = <<>> /\ StoreUnchanged
              ELSE /\ Len(calls') = n
                   /\ \A i \in 1..n : calls'[i].function = conversion_callbacks[i]
                   /\ n > 0 => calls'[1].values = [i \in DOMAIN r.samples |-> r.samples[i].value]
                   /\ \A i \in 1..(n - 1) :
                        calls'[i + 1].values =
                            [k \in DOMAIN calls'[i].values |->
                                Converted(conversion_callbacks[i], calls'[i].values[k])]
                   /\ readings' # <<>>
                   /\ readings'[Len(readings')] = AsStored(r) ]_vars

\* a two-channel reading has just been accepted through two callbacks
C9_Witness ==
    /\ pc = "insert"
    /\ outcome = "accepted"
    /\ Len(calls) = 2
    /\ Len(current[1].samples) = 2
    /\ readings[Len(readings)].samples[2].value = 0

(***************************************************************************)
(* C10: json_repr with trimming enabled always terminates: for every store *)
(* content and every max_bytes it returns after finitely many trimming     *)
(* steps (the empty-array encoding when no reading fits) rather than       *)
(* failing or looping indefinitely.                                        *)
(***************************************************************************)
C10_TrimmingTerminates ==
    (pc = "json_while" /\ max_bytes_data_trim) ~> (pc = "idle")

\* the stored readings as json_repr encodes them, oldest first
StoredDicts == [i \in DOMAIN readings |-> dict_repr(readings[i])]

Prefix(s, k) == SubSeq(s, 1, k)

Fits(dicts) == json_dumps_len(dicts) <= max_bytes

(***************************************************************************)
(* C11: whenever json_repr with trimming enabled returns, what it returns  *)
(* encodes the longest oldest-first prefix of the stored readings whose    *)
(* encoding is no longer than max_bytes: readings are dropped from the end *)
(* only, the full list is returned when it fits, and the result is never   *)
(* longer than max_bytes.                                                  *)
(***************************************************************************)
C11_LongestFittingPrefix ==
    (pc = "json_return" /\ max_bytes_data_trim) =>
        \E k \in 0..Len(StoredDicts) :
            /\ json_encoded[1] = Prefix(StoredDicts, k)
            /\ Fits(json_encoded[1])
            /\ \A j \in (k + 1)..Len(StoredDicts) : ~Fits(Prefix(StoredDicts, j))

\* json_repr is about to return one reading of the two stored: the newest
\* was dropped
C11_Witness ==
    /\ pc = "json_return"
    /\ max_bytes_data_trim
    /\ Len(readings) = 2
    /\ Len(json_encoded[1]) = 1
    /\ ~Fits(StoredDicts)

(***************************************************************************)
(* C12: json_repr with trimming disabled fails with "payload too large"    *)
(* exactly when the encoding of all stored readings is longer than         *)
(* max_bytes, and otherwise returns the encoding of all of them; the store *)
(* is unchanged either way.                                                *)
(***************************************************************************)
C12_TooLargeOrEverything ==
    /\ [][ (pc = "json_if" /\ ~max_bytes_data_trim) =>
             IF Fits(StoredDicts)
             THEN pc' = "json_return" /\ error' = "none" /\ json_encoded'[1] = StoredDicts
             ELSE pc' = "json_raised" /\ error' = "PayloadTooLarge" ]_vars
    /\ [][ (~max_bytes_data_trim /\ pc \in {"json_if", "json_return", "json_raised"}) =>
             (StoreUnchanged /\ pc' \in {"json_return", "json_raised", "idle"}) ]_vars
    /\ [][ (pc = "idle" /\ pc' = "json_if") => StoreUnchanged ]_vars
    /\ [](pc = "json_raised" => (~max_bytes_data_trim /\ ~Fits(StoredDicts)))
    /\ []((pc = "json_return" /\ ~max_bytes_data_trim) =>
            (json_encoded[1] = StoredDicts /\ Fits(StoredDicts)))

\* with trimming disabled, a store of two readings was too large for max_bytes
C12_Witness ==
    /\ pc = "json_raised"
    /\ error = "PayloadTooLarge"
    /\ ~max_bytes_data_trim
    /\ Len(readings) = 2

\* the stored readings later than t, and those not later, in stored order
After(t) == SelectSeq(readings, LAMBDA r : r.reading_time > t)

NotAfter(t) == SelectSeq(readings, LAMBDA r : r.reading_time <= t)

\* the call that has just run is a call of this method
Ran(method) == query # <<>> /\ query[1].method = method

(***************************************************************************)
(* C13 as claimed: for every store built with a capacity of at least 0     *)
(* (stores filled through conversion callbacks included) and every t,      *)
(* find_readings_after(t) returns a new store holding exactly the stored   *)
(* readings with time > t and find_readings_before(t) exactly those with   *)
(* time <= t, in stored order, none dropped, skipped or evicted.           *)
(***************************************************************************)
C13_ExactlyAfterAndBefore ==
    initial_length >= 0 =>
        /\ Ran("find_readings_after") =>
              /\ pc = "query_return"
              /\ query[1].returned.readings = After(query[1].timestamp)
        /\ Ran("find_readings_before") =>
              /\ pc = "query_return"
              /\ query[1].returned.readings = NotAfter(query[1].timestamp)


\* no stored reading has exactly this time
NotStored(t) == \A i \in DOMAIN readings : readings[i].reading_time # t

(***************************************************************************)
(* C14 as claimed: for a store built with a capacity of at least 0 and a   *)
(* t that is not the time of a stored reading, the readings of             *)
(* find_readings_before(t) followed by those of find_readings_after(t) are *)
(* the stored readings, in order.                                          *)
(***************************************************************************)
C14_BeforeThenAfter ==
    (initial_length >= 0 /\ Ran("find_readings_before") /\ NotStored(query[1].timestamp)) =>
        LET after == find_readings_after(query[1].timestamp)
        IN  /\ pc = "query_return"
            /\ after.error = "none"
            /\ query[1].returned.readings \o after.obj.readings = readings


(***************************************************************************)
(* C15 as claimed: for a store built with a capacity of at least 0, the    *)
(* list of the stored readings' dict_repr, reloaded with                   *)
(* instance_from_dict, gives a store with the same readings: same times,   *)
(* channels and sample values, in the same order.                          *)
(***************************************************************************)
C15_RoundTrip ==
    (initial_length >= 0 /\ Ran("instance_from_dict")) =>
        /\ pc = "query_return"
        /\ query[1].returned.readings = readings


(***************************************************************************)
(* C16 as claimed: apply_function with a function that returns a list of   *)
(* another length than the number of samples fails with a conversion-arity *)
(* error; it never returns having updated some samples and not others, or  *)
(* having ignored surplus values.                                          *)
(***************************************************************************)
C16_ArityError ==
    (Ran("apply_function") /\ Len(query[1].output) # Len(query[1].reading.samples)) =>
        /\ pc = "query_raised"
        /\ error = "ConversionArity"


(***************************************************************************)
(* C17 as claimed: for a store built with any capacity of at least 0, in   *)
(* either buffer mode, a turn of insert's loop fails only when the         *)
(* reading's time is not later than the last stored time; making room      *)
(* never fails, so a reading that passes the no-data test and the time     *)
(* test is appended.                                                       *)
(***************************************************************************)
C17_FailsOnlyOnTime ==
    [][ (LoopTurn /\ initial_length >= 0) =>
          LET r == current'[1]
          IN  /\ error' # "none" =>
                   (error' = "NonMonotonicTime" /\ NotAfterTheStore(r))
              /\ (~NoDataCaptured(r) /\ ~NotAfterTheStore(r)) =>
                   /\ error' = "none"
                   /\ readings' # <<>>
                   /\ readings'[Len(readings')] = AsStored(r) ]_vars


\* a row from which no Reading can be made
Malformed(r) == Len(r.channels) # Len(r.samples)

(***************************************************************************)
(* C18: insert_from_dict builds the Readings of all rows before it inserts *)
(* any: when a row cannot be built the call fails with no row inserted and *)
(* the store unchanged, whatever rows come before the failing one; when    *)
(* all rows can be built, insert is called with their readings.            *)
(***************************************************************************)
C18_BuiltBeforeInserted ==
    /\ [][ (pc = "idle" /\ Ran("insert_from_dict")') =>
             LET ddict == query'[1].ddict
             IN  IF \E i \in DOMAIN ddict : Malformed(ddict[i])
                 THEN pc' = "dict_raised" /\ error' # "none" /\ StoreUnchanged
                 ELSE /\ pc' = "insert"
                      /\ StoreUnchanged
                      /\ pending'[1] = [i \in DOMAIN ddict |->
                            Reading(ddict[i].reading_time, ddict[i].channels,
                                    [k \in DOMAIN ddict[i].samples |->
                                        ddict[i].samples[k].value])] ]_vars
    /\ [][ pc = "dict_raised" => (pc' = "idle" /\ StoreUnchanged) ]_vars
    /\ [](pc = "dict_raised" => (pos = 0 /\ committed = <<>>))

\* the call failed on its second row; the first one could have been inserted
C18_Witness ==
    /\ pc = "dict_raised"
    /\ Len(query[1].ddict) = 2
    /\ ~Malformed(query[1].ddict[1])
    /\ Malformed(query[1].ddict[2])
    /\ readings # <<>>
    /\ Len(readings) < reading_storage_length
    /\ query[1].ddict[1].reading_time > readings[Len(readings)].reading_time


\* the program points of the queries and of the serializations
Reads == { "query_return", "query_raised",
           "json_if", "json_while", "json_trim", "json_return", "json_raised" }

IsStored(r) == \E i \in DOMAIN readings : readings[i] = r

(***************************************************************************)
(* C19: find_reading, find_readings_after, find_readings_before, csv_repr, *)
(* list_repr and json_repr leave the queried store as it was: the same     *)
(* readings in the same order with the same sample values, the same        *)
(* capacity and buffer mode. The readings placed in a result store are     *)
(* stored readings as they are: the callbacks are not applied to them a    *)
(* second time.                                                            *)
(***************************************************************************)
C19_QueriesLeaveTheStore ==
    /\ [][ (pc = "idle" /\ pc' \in Reads) => StoreUnchanged ]_vars
    /\ [][ (pc \in Reads) => (StoreUnchanged /\ (pc' = "idle" \/ pc' \in Reads)) ]_vars
    /\ []((Ran("find_readings_after") \/ Ran("find_readings_before")) =>
            \A i \in DOMAIN query[1].returned.readings :
                IsStored(query[1].returned.readings[i]))
    /\ [](Ran("find_reading") =>
            \A i \in DOMAIN query[1].returned : IsStored(query[1].returned[i]))

\* find_readings_after has returned two readings of a store with callbacks
C19_Witness ==
    /\ pc = "query_return"
    /\ Ran("find_readings_after")
    /\ conversion_callbacks # <<>>
    /\ Len(query[1].returned.readings) = 2


\* the reading taken in this step passes the no-data test and the time test
Accepted(r) == ~NoDataCaptured(r) /\ ~NotAfterTheStore(r)

(***************************************************************************)
(* C20: reading_storage_length changes only when a reading is accepted     *)
(* into a full store with increase_buffer true, and then by exactly +1;    *)
(* such a reading always changes it. With increase_buffer false it never   *)
(* changes, it never decreases, and skipped readings, rejected readings    *)
(* and readings accepted below capacity leave it alone.                    *)
(***************************************************************************)
C20_LengthGrowsByOne ==
    [][ /\ reading_storage_length' # reading_storage_length =>
             /\ LoopTurn
             /\ increase_buffer
             /\ Len(readings) >= reading_storage_length
             /\ Accepted(current'[1])
             /\ readings' = Append(readings, AsStored(current'[1]))
             /\ reading_storage_length' = reading_storage_length + 1
        /\ (LoopTurn /\ increase_buffer /\ Accepted(current'[1])
              /\ Len(readings) >= reading_storage_length) =>
             reading_storage_length' = reading_storage_length + 1 ]_vars

\* a growing store built with capacity 1 holds two readings, the second
\* just accepted, and its capacity is 2
C20_Witness ==
    /\ pc = "insert"
    /\ outcome = "accepted"
    /\ increase_buffer
    /\ initial_length = 1
    /\ Len(readings) = 2
    /\ reading_storage_length = 2

====
